---------------------------- MODULE Spec2Model ----------------------------
(***************************************************************************)
(* Universal App Builder (src/app.py): the Streamlit session, the project  *)
(* model, the code generators and the archive packager.                    *)
(*                                                                         *)
(* Text is modelled as a sequence of string fragments.  Text the code      *)
(* inspects character by character (license keys, the app name, the        *)
(* comma-separated options/columns fields) is a sequence of one-character  *)
(* strings; template text the code only copies is kept as whole fragments. *)
(* A Python dict of files is a sequence of [path, content] pairs in        *)
(* insertion order, a path being the sequence of its segments.             *)
(***************************************************************************)
EXTENDS Integers, Sequences, FiniteSets, TLC

VARIABLES logged_in, licensed, license_key, project, selected_index, page, out

vars == <<logged_in, licensed, license_key, project, selected_index, page, out>>

(***************************************************************************)
(* Bounds of the model.                                                    *)
(***************************************************************************)
\* longest component list drawn for the generators
MaxComps == 2
\* longest options/columns string drawn for the comma-separated fields
MaxStrLen == 3

(***************************************************************************)
(* Characters and Python's str methods.                                    *)
(***************************************************************************)
Lowers == <<"a","b","c","d","e","f","g","h","i","j","k","l","m",
            "n","o","p","q","r","s","t","u","v","w","x","y","z">>
Uppers == <<"A","B","C","D","E","F","G","H","I","J","K","L","M",
            "N","O","P","Q","R","S","T","U","V","W","X","Y","Z">>
Digits == <<"0","1","2","3","4","5","6","7","8","9">>

Range(s) == {s[i] : i \in 1..Len(s)}

IndexOf(s, c) == CHOOSE i \in 1..Len(s) : s[i] = c

IsSpace(c) == c \in {" ", "\t", "\n", "\r", "\f"}

IsAlnumChar(c) == c \in Range(Lowers) \cup Range(Uppers) \cup Range(Digits)

\* str.upper() on one character
UpperChar(c) == IF c \in Range(Lowers) THEN Uppers[IndexOf(Lowers, c)] ELSE c

\* str.lower() on one character
LowerChar(c) == IF c \in Range(Uppers) THEN Lowers[IndexOf(Uppers, c)] ELSE c

\* ord() of the characters the model uses
Ord(c) ==
    IF c \in Range(Uppers) THEN 64 + IndexOf(Uppers, c)
    ELSE IF c \in Range(Lowers) THEN 96 + IndexOf(Lowers, c)
    ELSE IF c \in Range(Digits) THEN 47 + IndexOf(Digits, c)
    ELSE CASE c = " " -> 32
           [] c = "!" -> 33
           [] c = "*" -> 42
           [] c = "," -> 44
           [] c = "-" -> 45
           [] c = "_" -> 95
           [] OTHER -> 63

Upper(s) == [i \in 1..Len(s) |-> UpperChar(s[i])]

Lower(s) == [i \in 1..Len(s) |-> LowerChar(s[i])]

RECURSIVE LStrip(_)
LStrip(s) == IF s # <<>> /\ IsSpace(Head(s)) THEN LStrip(Tail(s)) ELSE s

RECURSIVE RStrip(_)
RStrip(s) ==
    IF s # <<>> /\ IsSpace(s[Len(s)]) THEN RStrip(SubSeq(s, 1, Len(s) - 1)) ELSE s

\* str.strip()
Strip(s) == RStrip(LStrip(s))

\* str.split(sep) for a one-character separator: always at least one part
RECURSIVE Split(_, _)
Split(s, sep) ==
    IF \A i \in 1..Len(s) : s[i] # sep THEN <<s>>
    ELSE LET k == CHOOSE i \in 1..Len(s) :
                      s[i] = sep /\ \A j \in 1..(i - 1) : s[j] # sep
         IN  <<SubSeq(s, 1, k - 1)>> \o Split(SubSeq(s, k + 1, Len(s)), sep)

\* str.isalnum(): false for the empty string
IsAlnum(s) == s # <<>> /\ \A i \in 1..Len(s) : IsAlnumChar(s[i])

RECURSIVE SumOrd(_)
SumOrd(s) == IF s = <<>> THEN 0 ELSE Ord(Head(s)) + SumOrd(Tail(s))

\* sep.join(parts), every part a sequence of fragments
RECURSIVE Join(_, _)
Join(sep, parts) ==
    IF parts = <<>> THEN <<>>
    ELSE IF Len(parts) = 1 THEN parts[1]
    ELSE parts[1] \o sep \o Join(sep, Tail(parts))

\* [f(x) for x in s if keep(x)] with f the identity
RECURSIVE SelectSeqNonEmpty(_)
SelectSeqNonEmpty(s) ==
    IF s = <<>> THEN <<>>
    ELSE IF Head(s) # <<>> THEN <<Head(s)>> \o SelectSeqNonEmpty(Tail(s))
    ELSE SelectSeqNonEmpty(Tail(s))

(***************************************************************************)
(* Basic configuration and utilities.                                      *)
(***************************************************************************)
DEFAULT_ADMIN_USER == "admin"
DEFAULT_ADMIN_PASS == "admin"
LICENSE_PREFIX == <<"N","A","V","I","N","N">>

\* re.sub(r"[^a-z0-9\-]+", "-", name): every maximal run of other characters
\* becomes one "-"
RECURSIVE SubNonSlug(_)
SubNonSlug(s) ==
    IF s = <<>> THEN <<>>
    ELSE LET ok(c) == c \in Range(Lowers) \cup Range(Digits) \cup {"-"}
         IN  IF ok(Head(s)) THEN <<Head(s)>> \o SubNonSlug(Tail(s))
             ELSE IF Len(s) > 1 /\ ~ok(s[2]) THEN SubNonSlug(Tail(s))
             ELSE <<"-">> \o SubNonSlug(Tail(s))

\* re.sub(r"-+", "-", name)
RECURSIVE CollapseDashes(_)
CollapseDashes(s) ==
    IF s = <<>> THEN <<>>
    ELSE IF Head(s) = "-" /\ Len(s) > 1 /\ s[2] = "-" THEN CollapseDashes(Tail(s))
    ELSE <<Head(s)>> \o CollapseDashes(Tail(s))

RECURSIVE StripDashes(_)
StripDashes(s) ==
    IF s # <<>> /\ Head(s) = "-" THEN StripDashes(Tail(s))
    ELSE IF s # <<>> /\ s[Len(s)] = "-" THEN StripDashes(SubSeq(s, 1, Len(s) - 1))
    ELSE s

slugify(name) ==
    LET r == StripDashes(CollapseDashes(SubNonSlug(Lower(Strip(name)))))
    IN  IF r = <<>> THEN <<"m","y","-","a","p","p">> ELSE r

verify_license(key) ==
    LET parts == Split(Upper(Strip(key)), "-")
    IN  IF Len(parts) # 3 THEN FALSE
        ELSE IF parts[1] # LICENSE_PREFIX THEN FALSE
        ELSE IF ~(IsAlnum(parts[2]) /\ IsAlnum(parts[3])) THEN FALSE
        ELSE SumOrd(parts[2] \o parts[3]) % 7 = 0


(***************************************************************************)
(* JSON values and exceptions.  A dict is a record; a JSON value that is   *)
(* not a dict (a list, a number) at a place where the code subscripts with *)
(* a string key is the record [nondict |-> <its Python type>].  A call     *)
(* either returns a value or raises: [err |-> "", val |-> v] or            *)
(* [err |-> <exception>, val |-> <<>>].                                    *)
(***************************************************************************)
IsDict(v) == "nondict" \notin DOMAIN v

Has(v, k) == IsDict(v) /\ k \in DOMAIN v

\* dict.get(k, d)
Get(c, k, d) == IF k \in DOMAIN c THEN c[k] ELSE d

Ok(v) == [err |-> "", val |-> v]

Raise(e) == [err |-> e, val |-> <<>>]

\* the exception of v[k]: "" when the subscript succeeds
SubscriptError(v, k) ==
    IF ~IsDict(v) THEN "TypeError" ELSE IF k \notin DOMAIN v THEN "KeyError" ELSE ""

\* the first exception of v[keys[1]], v[keys[2]], ... evaluated in order
RECURSIVE FirstError(_, _)
FirstError(v, keys) ==
    IF keys = <<>> THEN ""
    ELSE IF SubscriptError(v, Head(keys)) # "" THEN SubscriptError(v, Head(keys))
    ELSE FirstError(v, Tail(keys))

\* the first exception among the results rs, "" when none raised
RECURSIVE FirstRaised(_)
FirstRaised(rs) ==
    IF rs = <<>> THEN ""
    ELSE IF Head(rs).err # "" THEN Head(rs).err
    ELSE FirstRaised(Tail(rs))

\* a Python string is falsy exactly when it is empty
IsEmptyText(s) == \A i \in 1..Len(s) : s[i] = ""

(***************************************************************************)
(* The project model.                                                      *)
(***************************************************************************)
DefaultName == <<"M","y"," ","A","w","e","s","o","m","e"," ","A","p","p">>

\* now_iso(): the UTC clock readings of the model
Timestamps == {"2024-01-01T00:00:00Z", "2024-01-01T00:00:01Z"}

new_project(created) ==
    [name |-> DefaultName,
     brand |-> "YourBrand",
     created |-> created,
     frontend |-> [framework |-> "React", themeColor |-> "#1273de",
                   accentColor |-> "#FFB703", darkMode |-> FALSE],
     backend |-> [type |-> "FastAPI"],
     components |-> <<
        [type |-> "text", id |-> <<"title1">>, label |-> "Welcome to your app!"],
        [type |-> "input", id |-> <<"name">>, label |-> "Your name",
         placeholder |-> "Enter your name"],
        [type |-> "button", id |-> <<"cta">>, label |-> "Submit"] >>,
     meta |-> [version |-> "0.1.0", author |-> "You"]]

\* the keys of COMP_TYPES, in order
COMP_TYPE_KEYS == <<"text", "input", "button", "checkbox", "select", "table">>

COMP_TYPES ==
    [t \in Range(COMP_TYPE_KEYS) |->
        CASE t = "text" -> [fields |-> <<"label">>]
          [] t = "input" -> [fields |-> <<"label", "placeholder">>]
          [] t = "button" -> [fields |-> <<"label">>]
          [] t = "checkbox" -> [fields |-> <<"label">>]
          [] t = "select" -> [fields |-> <<"label", "options">>]
          [] t = "table" -> [fields |-> <<"columns">>]]

OptionAB == <<"O","p","t","i","o","n"," ","A",",","O","p","t","i","o","n"," ","B">>

NameValue == <<"N","a","m","e",",","V","a","l","u","e">>

\* ms is int(time.time()*1000)
new_component(c_type, ms) ==
    LET base == [type |-> c_type, id |-> <<c_type, "_", ToString(ms)>>]
    IN  CASE c_type = "text" -> base @@ [label |-> "Sample text"]
          [] c_type = "input" -> base @@ [label |-> "Input", placeholder |-> "Type here"]
          [] c_type = "button" -> base @@ [label |-> "Click me"]
          [] c_type = "checkbox" -> base @@ [label |-> "Enable feature"]
          [] c_type = "select" -> base @@ [label |-> "Choose option", options |-> OptionAB]
          [] c_type = "table" -> base @@ [columns |-> NameValue]
          [] OTHER -> base

(***************************************************************************)
(* The interchange format: json.dumps(project, indent=2) and json.loads.   *)
(* A document is a sequence of fragments.  Each of { } [ ] : , " \ and     *)
(* each whitespace character is a fragment of its own, so the reader finds *)
(* the structure of a document by scanning it, and a string's characters   *)
(* are the fragments between its quotes.  The model keeps the strings      *)
(* under CharKeys as sequences of characters and the strings under         *)
(* TextKeys as one fragment, which the writer copies whole.  A number is   *)
(* [nondict |-> "int", digits |-> <its digits>], None is                   *)
(* [nondict |-> "NoneType"]; floats and the escape \b are outside the      *)
(* model's alphabet.                                                       *)
(***************************************************************************)
CharKeys == {"name", "id", "options", "columns"}

TextKeys == {"brand", "created", "framework", "themeColor", "accentColor", "type",
             "label", "placeholder", "version", "author", "entity"}

BoolKeys == {"darkMode"}

ListKeys == {"components", "entities"}

\* the key under which the items of the list at key k are read and written
ItemKey(k) == IF k = "entities" THEN "entity" ELSE "item"

\* the order in which the writer visits the keys of a dict
KeyOrder ==
    <<"name", "brand", "created", "frontend", "backend", "components", "meta", "entities",
      "framework", "themeColor", "accentColor", "darkMode",
      "type", "id", "label", "placeholder", "options", "columns",
      "version", "author", "build", "notes">>

RECURSIVE KeysIn(_, _)
KeysIn(v, order) ==
    IF order = <<>> THEN <<>>
    ELSE IF Head(order) \in DOMAIN v THEN <<Head(order)>> \o KeysIn(v, Tail(order))
    ELSE KeysIn(v, Tail(order))

\* ensure_ascii: the \uXXXX escapes of the characters outside ASCII
UnicodeEscapes == [c \in {"é"} |-> <<"0", "0", "e", "9">>]

\* the two-character escapes of the reader, ESCAPE_DCT of the writer among them
Unescapes ==
    [c \in {"\"", "\\", "/", "n", "t", "r", "f"} |->
        CASE c = "n" -> "\n" [] c = "t" -> "\t" [] c = "r" -> "\r" [] c = "f" -> "\f"
          [] OTHER -> c]

ControlChars == {"\n", "\t", "\r", "\f"}

\* EscapeChar that leaves a backslash as it is
EscapeChar_quote_only(c) ==
    IF c = "\"" THEN <<"\\", c>>
    ELSE IF c \in ControlChars
         THEN <<"\\", CHOOSE e \in DOMAIN Unescapes : Unescapes[e] = c /\ e # c>>
    ELSE IF c \in DOMAIN UnicodeEscapes THEN <<"\\", "u">> \o UnicodeEscapes[c]
    ELSE <<c>>

\* py_encode_basestring_ascii on one character
EscapeChar(c) ==
    IF c \in {"\"", "\\"} THEN <<"\\", c>>
    ELSE IF c \in ControlChars
         THEN <<"\\", CHOOSE e \in DOMAIN Unescapes : Unescapes[e] = c /\ e # c>>
    ELSE IF c \in DOMAIN UnicodeEscapes THEN <<"\\", "u">> \o UnicodeEscapes[c]
    ELSE <<c>>

RECURSIVE Escape(_)
Escape(s) == IF s = <<>> THEN <<>> ELSE EscapeChar(Head(s)) \o Escape(Tail(s))

DumpsChars(s) == <<"\"">> \o Escape(s) \o <<"\"">>

DumpsText(s) == IF s = "" THEN <<"\"", "\"">> ELSE <<"\"", s, "\"">>

\* newline_indent of the writer at nesting level n, indent=2
NewlineIndent(n) == <<"\n">> \o [i \in 1..(2 * n) |-> " "]

\* a value the writer needs no key to write: a number or None
DumpsTagged(v) ==
    IF v.nondict = "int" THEN v.digits
    ELSE IF v.nondict = "NoneType" THEN <<"null">>
    ELSE <<"[", "]">>

RECURSIVE DumpsValue(_, _, _), DumpsMembers(_, _, _), DumpsItems(_, _, _)
\* the text of value v held under key k, at nesting level n
DumpsValue(k, v, n) ==
    IF k \in BoolKeys THEN <<IF v THEN "true" ELSE "false">>
    ELSE IF k \in CharKeys THEN DumpsChars(v)
    ELSE IF k \in TextKeys THEN DumpsText(v)
    ELSE IF k \in ListKeys
         THEN IF v = <<>> THEN <<"[", "]">>
              ELSE <<"[">> \o DumpsItems(k, v, n + 1) \o NewlineIndent(n) \o <<"]">>
    ELSE IF ~IsDict(v) THEN DumpsTagged(v)
    ELSE IF KeysIn(v, KeyOrder) = <<>> THEN <<"{", "}">>
    ELSE <<"{">> \o DumpsMembers(v, KeysIn(v, KeyOrder), n + 1) \o NewlineIndent(n) \o <<"}">>

DumpsMembers(v, keys, n) ==
    NewlineIndent(n) \o DumpsText(Head(keys)) \o <<":", " ">>
        \o DumpsValue(Head(keys), v[Head(keys)], n)
        \o (IF Tail(keys) = <<>> THEN <<>> ELSE <<",">> \o DumpsMembers(v, Tail(keys), n))

DumpsItems(k, items, n) ==
    NewlineIndent(n) \o DumpsValue(ItemKey(k), Head(items), n)
        \o (IF Tail(items) = <<>> THEN <<>> ELSE <<",">> \o DumpsItems(k, Tail(items), n))

\* json.dumps(p, indent=2)
json_dumps(p) == DumpsValue("", p, 0)

JsonWhitespace == {" ", "\n", "\t", "\r"}

RECURSIVE SkipWs(_, _)
SkipWs(t, i) == IF i <= Len(t) /\ t[i] \in JsonWhitespace THEN SkipWs(t, i + 1) ELSE i

\* a result of the reader: the value read, what it is, and where the reader stands
Parsed(kind, val, next) == [err |-> "", kind |-> kind, val |-> val, next |-> next]

BadJson(i) == [err |-> "JSONDecodeError", kind |-> "", val |-> <<>>, next |-> i]

\* py_scanstring from t[i], the character after the opening quote
RECURSIVE ScanString(_, _, _)
ScanString(t, i, acc) ==
    IF i > Len(t) THEN BadJson(i)
    ELSE IF t[i] = "\"" THEN Parsed("str", acc, i + 1)
    ELSE IF t[i] \in ControlChars THEN BadJson(i)
    ELSE IF t[i] # "\\" THEN ScanString(t, i + 1, Append(acc, t[i]))
    ELSE IF i + 1 > Len(t) THEN BadJson(i)
    ELSE IF t[i + 1] \in DOMAIN Unescapes
         THEN ScanString(t, i + 2, Append(acc, Unescapes[t[i + 1]]))
    ELSE IF /\ t[i + 1] = "u"
            /\ i + 5 <= Len(t)
            /\ \E c \in DOMAIN UnicodeEscapes : UnicodeEscapes[c] = Lower(SubSeq(t, i + 2, i + 5))
         THEN ScanString(t, i + 6,
                         Append(acc, CHOOSE c \in DOMAIN UnicodeEscapes :
                                        UnicodeEscapes[c] = Lower(SubSeq(t, i + 2, i + 5))))
    ELSE BadJson(i)

\* the digits of an integer from t[i]: a lone 0, or a run that starts with 1..9
RECURSIVE ScanDigits(_, _)
ScanDigits(t, i) ==
    IF i <= Len(t) /\ t[i] \in Range(Digits) THEN <<t[i]>> \o ScanDigits(t, i + 1) ELSE <<>>

ScanNumber(t, i) ==
    LET neg == IF t[i] = "-" THEN <<"-">> ELSE <<>>
        j == i + Len(neg)
        run == IF j <= Len(t) /\ t[j] = "0" THEN <<"0">> ELSE ScanDigits(t, j)
    IN  IF run = <<>> THEN BadJson(i)
        ELSE Parsed("int", [nondict |-> "int", digits |-> neg \o run], j + Len(run))

\* the model's value of the string s read under key k
StringValue(k, s) ==
    IF k \notin TextKeys THEN s
    ELSE IF s = <<>> THEN ""
    ELSE IF Len(s) = 1 THEN s[1]
    ELSE s

RECURSIVE ParseValue(_, _, _), ParseMembers(_, _, _), ParseItems(_, _, _, _)
\* scan_once: the value that starts at or after t[i0], read under key k
ParseValue(t, i0, k) ==
    LET i == SkipWs(t, i0)
    IN  IF i > Len(t) THEN BadJson(i)
        ELSE IF t[i] = "\""
             THEN LET s == ScanString(t, i + 1, <<>>)
                  IN  IF s.err # "" THEN s ELSE Parsed("str", StringValue(k, s.val), s.next)
        ELSE IF t[i] = "{"
             THEN IF SkipWs(t, i + 1) <= Len(t) /\ t[SkipWs(t, i + 1)] = "}"
                  THEN Parsed("dict", <<>>, SkipWs(t, i + 1) + 1)
                  ELSE ParseMembers(t, i + 1, <<>>)
        ELSE IF t[i] = "["
             THEN IF SkipWs(t, i + 1) <= Len(t) /\ t[SkipWs(t, i + 1)] = "]"
                  THEN Parsed("list", <<>>, SkipWs(t, i + 1) + 1)
                  ELSE ParseItems(t, i + 1, k, <<>>)
        ELSE IF t[i] = "true" THEN Parsed("bool", TRUE, i + 1)
        ELSE IF t[i] = "false" THEN Parsed("bool", FALSE, i + 1)
        ELSE IF t[i] = "null" THEN Parsed("NoneType", [nondict |-> "NoneType"], i + 1)
        ELSE IF t[i] = "-" \/ t[i] \in Range(Digits) THEN ScanNumber(t, i)
        ELSE BadJson(i)

\* JSONObject after "{" or ",": a key, a colon, a value, then "," or "}";
\* a key read again replaces the value read before
ParseMembers(t, i0, acc) ==
    LET i == SkipWs(t, i0)
    IN  IF i > Len(t) \/ t[i] # "\"" THEN BadJson(i)
        ELSE LET key == ScanString(t, i + 1, <<>>)
             IN  IF key.err # "" THEN key
                 ELSE LET name == IF Len(key.val) = 1 THEN key.val[1] ELSE ""
                          c == SkipWs(t, key.next)
                      IN  IF c > Len(t) \/ t[c] # ":" THEN BadJson(c)
                          ELSE LET v == ParseValue(t, c + 1, name)
                               IN  IF v.err # "" THEN v
                                   ELSE LET e == SkipWs(t, v.next)
                                            got == (name :> v.val) @@ acc
                                        IN  IF e > Len(t) THEN BadJson(e)
                                            ELSE IF t[e] = "}" THEN Parsed("dict", got, e + 1)
                                            ELSE IF t[e] = "," THEN ParseMembers(t, e + 1, got)
                                            ELSE BadJson(e)

\* JSONArray after "[" or ",": a value, then "," or "]"
ParseItems(t, i0, k, acc) ==
    LET v == ParseValue(t, i0, ItemKey(k))
    IN  IF v.err # "" THEN v
        ELSE LET e == SkipWs(t, v.next)
             IN  IF e > Len(t) THEN BadJson(e)
                 ELSE IF t[e] = "]" THEN Parsed("list", Append(acc, v.val), e + 1)
                 ELSE IF t[e] = "," THEN ParseItems(t, e + 1, k, Append(acc, v.val))
                 ELSE BadJson(e)

\* bytes.decode("utf-8"): the fragment "0xFF" is a byte that no UTF-8 text holds
InvalidByte == "0xFF"

utf8_decode(bytes) ==
    IF InvalidByte \in Range(bytes) THEN Raise("UnicodeDecodeError") ELSE Ok(bytes)

\* str.encode(): the bytes of a text, as st.download_button stores a str
utf8_encode(text) == text

(***************************************************************************)
(* Code generation: the frontend.                                          *)
(***************************************************************************)
gen_shared_styles(theme_color, accent_color, dark) ==
    LET bg == IF dark THEN "#0f172a" ELSE "#f8fafc"
        fg == IF dark THEN "#e2e8f0" ELSE "#0f172a"
        card == IF dark THEN "#111827" ELSE "#ffffff"
        border == IF dark THEN "#1f2937" ELSE "#e5e7eb"
    IN  <<":root {\n  --theme: ", theme_color, ";\n  --accent: ", accent_color,
          ";\n  --bg: ", bg, ";\n  --fg: ", fg, ";\n  --card: ", card,
          ";\n  --border: ", border, ";\n}\n", "* { box-sizing: border-box; } ... th, td { ... }\n">>

\* [o.strip() for o in field.split(",") if o.strip()]
ParseList(field) ==
    LET parts == Split(field, ",")
    IN  SelectSeqNonEmpty([i \in 1..Len(parts) |-> Strip(parts[i])])

\* OptionsMarkup without the "or '<option>Option</option>'" fallback
OptionsMarkup_no_fallback(options, sep) ==
    Join(<<sep>>, [i \in 1..Len(options) |->
                    <<"<option value=\"">> \o options[i] \o <<"\">">> \o options[i]
                        \o <<"</option>">>])

\* one <option> per parsed option, joined; the placeholder when that text is empty
OptionsMarkup(options, sep) ==
    LET items == [i \in 1..Len(options) |->
                    <<"<option value=\"">> \o options[i] \o <<"\">">> \o options[i]
                        \o <<"</option>">>]
        joined == Join(<<sep>>, items)
    IN  IF IsEmptyText(joined) THEN <<"<option>", "Option", "</option>">> ELSE joined

ThMarkup(columns) ==
    LET joined == Join(<<>>, [i \in 1..Len(columns) |->
                                <<"<th>">> \o columns[i] \o <<"</th>">>])
    IN  IF IsEmptyText(joined) THEN <<"<th>", "Column", "</th>">> ELSE joined

TdMarkup(columns) ==
    LET joined == Join(<<>>, [i \in 1..Len(columns) |-> <<"<td></td>">>])
    IN  IF IsEmptyText(joined) THEN <<"<td></td>">> ELSE joined

react_component_jsx(comp) ==
    IF SubscriptError(comp, "type") # "" THEN Raise(SubscriptError(comp, "type"))
    ELSE LET t == comp.type
             needsId == t \in {"input", "checkbox", "select"}
         IN
         IF needsId /\ SubscriptError(comp, "id") # "" THEN Raise(SubscriptError(comp, "id"))
         ELSE Ok(
           CASE t = "text" ->
                  <<"<div className=\"card\">", "<div className=\"title\">",
                    Get(comp, "label", ""), "</div>", "</div>">>
             [] t = "input" ->
                  <<"<div className=\"card\">", "\n  <label className=\"label\" htmlFor=\"">>
                  \o comp.id \o <<"\">", Get(comp, "label", "Input"), "</label>",
                       "\n  <input id=\"">> \o comp.id
                  \o <<"\" className=\"input\" placeholder=\"", Get(comp, "placeholder", ""),
                       "\" />", "\n", "</div>">>
             [] t = "button" ->
                  <<"<div className=\"card\">", "<button className=\"btn\">",
                    Get(comp, "label", "Click"), "</button>", "</div>">>
             [] t = "checkbox" ->
                  <<"<div className=\"card\">",
                    "\n  <label className=\"label\"><input type=\"checkbox\" id=\"">>
                  \o comp.id \o <<"\" style={ marginRight: 8 } /> ",
                       Get(comp, "label", "Checkbox"), "</label>", "\n", "</div>">>
             [] t = "select" ->
                  <<"<div className=\"card\">", "\n  <label className=\"label\" htmlFor=\"">>
                  \o comp.id \o <<"\">", Get(comp, "label", "Select"), "</label>",
                       "\n  <select id=\"">> \o comp.id
                  \o <<"\" className=\"input\">", "\n          ">>
                  \o OptionsMarkup(ParseList(Get(comp, "options", <<>>)), "\n          ")
                  \o <<"\n  </select>", "\n", "</div>">>
             [] t = "table" ->
                  <<"<div className=\"card\">", "\n  <table>", "\n    <thead><tr>">>
                  \o ThMarkup(ParseList(Get(comp, "columns", <<>>)))
                  \o <<"</tr></thead>", "\n    <tbody><tr>">>
                  \o TdMarkup(ParseList(Get(comp, "columns", <<>>)))
                  \o <<"</tr></tbody>", "\n  </table>", "\n", "</div>">>
             [] OTHER ->
                  <<"<div className=\"card\">", "Unknown component", "</div>">>)


\* ReactBlocks with an off-by-one: the last component is not rendered
ReactBlocks_drop_last(comps) == [i \in 1..(Len(comps) - 1) |-> react_component_jsx(comps[i])]

\* [react_component_jsx(c) for c in comps]
ReactBlocks(comps) == [i \in 1..Len(comps) |-> react_component_jsx(comps[i])]

\* the val of every result
Vals(rs) == [i \in 1..Len(rs) |-> rs[i].val]

gen_react(app_name, brand, theme_color, accent_color, dark, comps) ==
    LET styles == gen_shared_styles(theme_color, accent_color, dark)
        blocks == ReactBlocks(comps)
        jsx == Join(<<"\n        ">>, Vals(blocks))
        app_jsx ==
            <<"import './styles.css'\n\nexport default function App() {\n  return (\n",
              "    <div className=\"container\">\n",
              "      <div className=\"title\">">> \o app_name
            \o <<" <span className=\"brand\">", brand, "</span></div>\n",
                 "      <hr/>\n      ">>
            \o jsx
            \o <<"\n    </div>\n  )\n}">>
        main_jsx ==
            <<"import React from 'react'\nimport ReactDOM from 'react-dom/client'\n",
              "import App from './App.jsx'\n\n",
              "ReactDOM.createRoot(document.getElementById('root')).render(...)">>
        index_html ==
            <<"<!doctype html>\n<html>\n  <head>...<title>App</title>\n  </head>\n",
              "  <body>\n    <div id=\"root\"></div>\n",
              "    <script type=\"module\" src=\"/src/main.jsx\"></script>\n  </body>\n</html>">>
        package_json ==
            <<"{\n  \"name\": \"">> \o slugify(app_name)
            \o <<"\",\n  \"private\": true,\n  \"version\": \"0.0.1\",\n  \"type\": \"module\",\n",
                 "  \"scripts\": {...},\n  \"dependencies\": {...},\n  \"devDependencies\": {...}\n}">>
    IN  IF FirstRaised(blocks) # "" THEN Raise(FirstRaised(blocks))
        ELSE Ok(<<[path |-> <<"frontend", "package.json">>, content |-> package_json],
                  [path |-> <<"frontend", "index.html">>, content |-> index_html],
                  [path |-> <<"frontend", "src", "App.jsx">>, content |-> app_jsx],
                  [path |-> <<"frontend", "src", "main.jsx">>, content |-> main_jsx],
                  [path |-> <<"frontend", "src", "styles.css">>, content |-> styles]>>)

\* the body of gen_vanilla's loop for one component
vanilla_part(c) ==
    IF SubscriptError(c, "type") # "" THEN Raise(SubscriptError(c, "type"))
    ELSE LET t == c.type
             needsId == t \in {"input", "checkbox", "select"}
         IN
         IF needsId /\ SubscriptError(c, "id") # "" THEN Raise(SubscriptError(c, "id"))
         ELSE Ok(
           CASE t = "text" ->
                  <<"<div class=\"card\">", "<div class=\"title\">",
                    Get(c, "label", ""), "</div>", "</div>">>
             [] t = "input" ->
                  <<"<div class=\"card\">", "\n  <label class=\"label\" for=\"">>
                  \o c.id \o <<"\">", Get(c, "label", "Input"), "</label>",
                       "\n  <input id=\"">> \o c.id
                  \o <<"\" class=\"input\" placeholder=\"", Get(c, "placeholder", ""),
                       "\" />", "\n", "</div>">>
             [] t = "button" ->
                  <<"<div class=\"card\">", "<button class=\"btn\">",
                    Get(c, "label", "Click"), "</button>", "</div>">>
             [] t = "checkbox" ->
                  <<"<div class=\"card\">",
                    "\n  <label class=\"label\"><input type=\"checkbox\" id=\"">>
                  \o c.id \o <<"\" style=\"margin-right:8px\" /> ",
                       Get(c, "label", "Checkbox"), "</label>", "\n", "</div>">>
             [] t = "select" ->
                  <<"<div class=\"card\">", "\n  <label class=\"label\" for=\"">>
                  \o c.id \o <<"\">", Get(c, "label", "Select"), "</label>",
                       "\n  <select id=\"">> \o c.id
                  \o <<"\" class=\"input\">", "\n      ">>
                  \o OptionsMarkup(ParseList(Get(c, "options", <<>>)), "\n      ")
                  \o <<"\n  </select>", "\n", "</div>">>
             [] t = "table" ->
                  <<"<div class=\"card\">", "\n  <table>", "\n    <thead><tr>">>
                  \o ThMarkup(ParseList(Get(c, "columns", <<>>)))
                  \o <<"</tr></thead>", "\n    <tbody><tr>">>
                  \o TdMarkup(ParseList(Get(c, "columns", <<>>)))
                  \o <<"</tr></tbody>", "\n  </table>", "\n", "</div>">>
             [] OTHER ->
                  <<"<div class=\"card\">", "Unknown component", "</div>">>)

\* html_parts after the loop over comps
VanillaParts(comps) == [i \in 1..Len(comps) |-> vanilla_part(comps[i])]

gen_vanilla(app_name, brand, theme_color, accent_color, dark, comps) ==
    LET styles == gen_shared_styles(theme_color, accent_color, dark)
        html_parts == VanillaParts(comps)
        body_html == Join(<<"\n      ">>, Vals(html_parts))
        index_html ==
            <<"<!doctype html>\n<html>\n  <head>...\n    <title>">> \o app_name
            \o <<"</title>\n    <style>\n">> \o styles
            \o <<"\n    </style>\n  </head>\n  <body>\n    <div class=\"container\">\n",
                 "      <div class=\"title\">">> \o app_name
            \o <<" <span class=\"brand\">", brand, "</span></div>\n",
                 "      <hr/>\n      ">>
            \o body_html
            \o <<"\n    </div>\n  </body>\n</html>">>
    IN  IF FirstRaised(html_parts) # "" THEN Raise(FirstRaised(html_parts))
        ELSE Ok(<<[path |-> <<"frontend", "index.html">>, content |-> index_html]>>)

generate_frontend_files(p) ==
    IF SubscriptError(p, "brand") # "" THEN Raise(SubscriptError(p, "brand"))
    ELSE IF SubscriptError(p, "frontend") # "" THEN Raise(SubscriptError(p, "frontend"))
    ELSE IF FirstError(p.frontend, <<"framework", "themeColor", "accentColor", "darkMode">>) # ""
         THEN Raise(FirstError(p.frontend,
                               <<"framework", "themeColor", "accentColor", "darkMode">>))
    ELSE IF FirstError(p, <<"components", "name">>) # ""
         THEN Raise(FirstError(p, <<"components", "name">>))
    ELSE LET theme == p.frontend
         IN  IF theme.framework = "React"
             THEN gen_react(p.name, p.brand, theme.themeColor, theme.accentColor,
                            theme.darkMode, p.components)
             ELSE gen_vanilla(p.name, p.brand, theme.themeColor, theme.accentColor,
                              theme.darkMode, p.components)

(***************************************************************************)
(* Code generation: the backend and the README.                            *)
(***************************************************************************)
gen_fastapi_backend ==
    <<[path |-> <<"backend_fastapi", "main.py">>,
       content |-> <<"from fastapi import FastAPI\n...\napp = FastAPI()\napp.add_middleware(...)\n\n",
                     "@app.get(\"/\")", "\ndef root():\n    return {...}\n\n",
                     "@app.post(\"/echo\")", "\ndef echo(payload: dict):\n    return {\"echo\": payload}">>],
      [path |-> <<"backend_fastapi", "requirements.txt">>,
       content |-> <<"fastapi>=0.111.0\nuvicorn[standard]>=0.30.0\n">>],
      [path |-> <<"backend_fastapi", "run.sh">>,
       content |-> <<"uvicorn main:app --reload --port 8000\n">>],
      [path |-> <<"backend_fastapi", "run.bat">>,
       content |-> <<"uvicorn main:app --reload --port 8000\r\n">>]>>

gen_express_backend ==
    <<[path |-> <<"backend_express", "server.js">>,
       content |-> <<"const express = require('express')\n...\napp.use(express.json())\n\n",
                     "app.get('/', ", "(req, res) => res.json({ status: 'ok', ... }))\n",
                     "app.post('/echo', ", "(req, res) => res.json({ echo: req.body }))\n\n",
                     "const port = process.env.PORT || 8000\napp.listen(port, ...)">>],
      [path |-> <<"backend_express", "package.json">>,
       content |-> <<"{\n  \"name\": \"backend-express\",\n  ...\n}">>],
      [path |-> <<"backend_express", "run.sh">>, content |-> <<"node server.js\n">>],
      [path |-> <<"backend_express", "run.bat">>, content |-> <<"node server.js\r\n">>]>>

\* generate_backend_files with FastAPI as the fallback of the type dispatch
generate_backend_files_fallback(p) ==
    IF SubscriptError(p, "backend") # "" THEN Raise(SubscriptError(p, "backend"))
    ELSE IF SubscriptError(p.backend, "type") # "" THEN Raise(SubscriptError(p.backend, "type"))
    ELSE IF p.backend.type = "Express" THEN Ok(gen_express_backend)
    ELSE Ok(gen_fastapi_backend)

generate_backend_files(p) ==
    IF SubscriptError(p, "backend") # "" THEN Raise(SubscriptError(p, "backend"))
    ELSE IF SubscriptError(p.backend, "type") # "" THEN Raise(SubscriptError(p.backend, "type"))
    ELSE LET btype == p.backend.type
         IN  IF btype = "FastAPI" THEN Ok(gen_fastapi_backend)
             ELSE IF btype = "Express" THEN Ok(gen_express_backend)
             ELSE Ok(<<>>)

TrialNotice == "Trial build -- Created with Universal App Builder (Single File)."

\* the lines list of generate_readme, each line a sequence of fragments
ReadmeLines(p, is_licensed) ==
    LET b == p.backend.type
    IN  << <<"# ">> \o p.name, <<>>,
           <<"Generated with Universal App Builder -- Brand: ", p.brand>>, <<>>,
           <<"## Project structure">>, <<"- frontend/">> >>
        \o (IF b = "FastAPI" THEN << <<"- backend_fastapi/">> >>
            ELSE IF b = "Express" THEN << <<"- backend_express/">> >>
            ELSE <<>>)
        \o << <<>>, <<"## Frontend">> >>
        \o (IF p.frontend.framework = "React"
            THEN << <<"1. cd frontend">>, <<"2. npm install">>, <<"3. npm run dev">> >>
            ELSE << <<"Open frontend/index.html in a browser or serve with any static server.">> >>)
        \o << <<>>, <<"## Backend">> >>
        \o (IF b = "FastAPI"
            THEN << <<"1. cd backend_fastapi">>, <<"2. pip install -r requirements.txt">>,
                    <<"3. sh run.sh  # or run.bat on Windows">> >>
            ELSE IF b = "Express"
            THEN << <<"1. cd backend_express">>, <<"2. npm install">>,
                    <<"3. sh run.sh  # or run.bat on Windows">> >>
            ELSE << <<"No backend selected.">> >>)
        \o << <<>> >>
        \o (IF ~is_licensed THEN << <<"---">>, <<TrialNotice>> >> ELSE <<>>)

\* generate_readme with the watermark test inverted
generate_readme_inverted(p, is_licensed) ==
    IF FirstError(p, <<"name", "brand", "backend">>) # ""
    THEN Raise(FirstError(p, <<"name", "brand", "backend">>))
    ELSE IF SubscriptError(p.backend, "type") # "" THEN Raise(SubscriptError(p.backend, "type"))
    ELSE IF SubscriptError(p, "frontend") # "" THEN Raise(SubscriptError(p, "frontend"))
    ELSE IF SubscriptError(p.frontend, "framework") # ""
         THEN Raise(SubscriptError(p.frontend, "framework"))
    ELSE Ok(Join(<<"\n">>, ReadmeLines(p, ~is_licensed)))

generate_readme(p, is_licensed) ==
    IF FirstError(p, <<"name", "brand", "backend">>) # ""
    THEN Raise(FirstError(p, <<"name", "brand", "backend">>))
    ELSE IF SubscriptError(p.backend, "type") # "" THEN Raise(SubscriptError(p.backend, "type"))
    ELSE IF SubscriptError(p, "frontend") # "" THEN Raise(SubscriptError(p, "frontend"))
    ELSE IF SubscriptError(p.frontend, "framework") # ""
         THEN Raise(SubscriptError(p.frontend, "framework"))
    ELSE Ok(Join(<<"\n">>, ReadmeLines(p, is_licensed)))

(***************************************************************************)
(* The archive packager.  The archive is the sequence of entries written   *)
(* by z.writestr, in order.                                                *)
(***************************************************************************)
\* build_zip that stamps a trial build with an extra file
build_zip_trial_file(p, is_licensed) ==
    LET frontend_files == generate_frontend_files(p)
        backend_files == generate_backend_files(p)
        readme == generate_readme(p, is_licensed)
    IN  IF frontend_files.err # "" THEN Raise(frontend_files.err)
        ELSE IF backend_files.err # "" THEN Raise(backend_files.err)
        ELSE IF readme.err # "" THEN Raise(readme.err)
        ELSE Ok(frontend_files.val \o backend_files.val
                \o (IF is_licensed THEN <<>>
                    ELSE <<[path |-> <<"frontend", "TRIAL.txt">>, content |-> <<TrialNotice>>]>>)
                \o <<[path |-> <<"README.md">>, content |-> readme.val]>>)

\* build_zip without the loop over backend_files
build_zip_no_backend(p, is_licensed) ==
    LET frontend_files == generate_frontend_files(p)
        backend_files == generate_backend_files(p)
        readme == generate_readme(p, is_licensed)
    IN  IF frontend_files.err # "" THEN Raise(frontend_files.err)
        ELSE IF backend_files.err # "" THEN Raise(backend_files.err)
        ELSE IF readme.err # "" THEN Raise(readme.err)
        ELSE Ok(frontend_files.val \o <<[path |-> <<"README.md">>, content |-> readme.val]>>)

build_zip(p, is_licensed) ==
    LET frontend_files == generate_frontend_files(p)
        backend_files == generate_backend_files(p)
        readme == generate_readme(p, is_licensed)
    IN  IF frontend_files.err # "" THEN Raise(frontend_files.err)
        ELSE IF backend_files.err # "" THEN Raise(backend_files.err)
        ELSE IF readme.err # "" THEN Raise(readme.err)
        ELSE Ok(frontend_files.val \o backend_files.val
                \o <<[path |-> <<"README.md">>, content |-> readme.val]>>)


(***************************************************************************)
(* The pages.  A page function is one run of the page's code on project p  *)
(* with no button pressed and every widget returning the value it shows;   *)
(* it returns the project as the run leaves it and the exception that      *)
(* ended the run, if any.                                                  *)
(***************************************************************************)
Pages == {"Login", "License", "Builder", "Export", "Settings"}

\* edit_component(c, idx) with no button pressed: the field editor writes each
\* widget's value back into c
edit_component(c) ==
    IF FirstError(c, <<"type", "id">>) # "" THEN [err |-> FirstError(c, <<"type", "id">>), c |-> c]
    ELSE IF c.type \notin DOMAIN COMP_TYPES THEN [err |-> "KeyError", c |-> c]
    ELSE LET fields == Range(COMP_TYPES[c.type].fields)
             w1 == IF "label" \in fields
                   THEN [label |-> Get(c, "label", "")] @@ c ELSE c
             w2 == IF "placeholder" \in fields
                   THEN [placeholder |-> Get(c, "placeholder", "")] @@ w1 ELSE w1
             w3 == IF "options" \in fields
                   THEN [options |-> Get(c, "options", OptionAB)] @@ w2 ELSE w2
             w4 == IF "columns" \in fields
                   THEN [columns |-> Get(c, "columns", NameValue)] @@ w3 ELSE w3
         IN  [err |-> "", c |-> w4]

\* the loop "for i, comp in enumerate(project["components"]): edit_component(comp, i)"
\* from index i on: it stops at the first exception, the earlier write-backs kept
RECURSIVE EditAll(_, _)
EditAll(comps, i) ==
    IF i > Len(comps) THEN [err |-> "", comps |-> comps]
    ELSE LET r == edit_component(comps[i])
         IN  IF r.err # "" THEN [err |-> r.err, comps |-> comps]
             ELSE EditAll([comps EXCEPT ![i] = r.c], i + 1)

\* the live preview loop: COMP_TYPES[comp["type"]]["preview"](comp)
RECURSIVE LivePreview(_)
LivePreview(comps) ==
    IF comps = <<>> THEN ""
    ELSE IF SubscriptError(Head(comps), "type") # "" THEN SubscriptError(Head(comps), "type")
    ELSE IF Head(comps).type \notin DOMAIN COMP_TYPES THEN "KeyError"
    ELSE LivePreview(Tail(comps))

\* ui_builder from the end of the editor loop, which returned e, up to the file
\* uploader: the live preview, then the file name of the download button
ui_builder_preview(p, e) ==
    LET q == [p EXCEPT !.components = e.comps]
    IN  IF e.err # "" THEN [err |-> e.err, project |-> q]
        ELSE IF LivePreview(q.components) # ""
             THEN [err |-> LivePreview(q.components), project |-> q]
        ELSE [err |-> SubscriptError(q, "name"), project |-> q]

\* ui_builder up to the file uploader
ui_builder_render(p) ==
    IF SubscriptError(p, "components") # ""
    THEN [err |-> SubscriptError(p, "components"), project |-> p]
    ELSE ui_builder_preview(p, EditAll(p.components, 1))

\* ui_export up to the Build ZIP button: the three metrics
ui_export_render(p) ==
    IF SubscriptError(p, "frontend") # "" THEN [err |-> SubscriptError(p, "frontend"), project |-> p]
    ELSE IF SubscriptError(p.frontend, "framework") # ""
         THEN [err |-> SubscriptError(p.frontend, "framework"), project |-> p]
    ELSE IF SubscriptError(p, "backend") # "" THEN [err |-> SubscriptError(p, "backend"), project |-> p]
    ELSE IF SubscriptError(p.backend, "type") # ""
         THEN [err |-> SubscriptError(p.backend, "type"), project |-> p]
    ELSE [err |-> SubscriptError(p, "components"), project |-> p]

\* ui_settings with the widgets returning name, framework and btype: every
\* field is assigned from its widget, in order, up to the first exception
ui_settings(p, name, framework, btype) ==
    IF SubscriptError(p, "name") # "" THEN [err |-> SubscriptError(p, "name"), project |-> p]
    ELSE LET p1 == [p EXCEPT !.name = name]
         IN
         IF FirstError(p1, <<"brand", "frontend">>) # ""
         THEN [err |-> FirstError(p1, <<"brand", "frontend">>), project |-> p1]
         ELSE IF SubscriptError(p1.frontend, "framework") # ""
              THEN [err |-> SubscriptError(p1.frontend, "framework"), project |-> p1]
         ELSE LET p2 == [p1 EXCEPT !.frontend.framework = framework]
              IN
              IF FirstError(p2.frontend, <<"themeColor", "accentColor", "darkMode">>) # ""
              THEN [err |-> "KeyError", project |-> p2]
              ELSE IF SubscriptError(p2, "backend") # ""
                   THEN [err |-> SubscriptError(p2, "backend"), project |-> p2]
              ELSE IF SubscriptError(p2.backend, "type") # ""
                   THEN [err |-> SubscriptError(p2.backend, "type"), project |-> p2]
              ELSE IF p2.backend.type \notin {"FastAPI", "Express", "None"}
                   THEN [err |-> "KeyError", project |-> p2]
              ELSE [err |-> "", project |-> [p2 EXCEPT !.backend.type = btype]]

\* what the Framework selectbox shows for p: index 0 for React, else index 1
ShownFramework(p) == IF p.frontend.framework = "React" THEN "React" ELSE "Vanilla"

\* ui_settings with no widget touched: every widget returns what it shows
ui_settings_render(p) ==
    ui_settings(p,
                Get(p, "name", <<>>),
                IF Has(p, "frontend") /\ Has(p.frontend, "framework")
                THEN ShownFramework(p) ELSE "React",
                IF Has(p, "backend") /\ Has(p.backend, "type")
                THEN p.backend.type ELSE "None")

\* main's dispatch on the page the sidebar returns.  src/app.py ends inside
\* main, at "page ="; each page name of ui_sidebar's radio runs the ui_ function
\* of that name, and no page is withheld from a session that is not logged in,
\* since no code of src/app.py withholds one.
RunPage(pg, p) ==
    CASE pg = "Builder" -> ui_builder_render(p)
      [] pg = "Export" -> ui_export_render(p)
      [] pg = "Settings" -> ui_settings_render(p)
      [] OTHER -> [err |-> "", project |-> p]


(***************************************************************************)
(* Inputs of the session.                                                  *)
(***************************************************************************)
\* license keys typed into the License page
Keys ==
    { <<>>,
      <<"N","A","V","I","N","N","-","1","-","8">>,
      <<" ","n","a","v","i","n","n","-","f","-","1"," ">>,
      <<"N","A","V","I","N","N","-","1","-","2">>,
      <<"N","A","V","I","N","N","-","*","-","1">> }

\* user names and passwords typed into the Login page
Credentials == {"admin", "guest"}

\* app names typed into the Settings page
Names == {DefaultName, <<" ","S","h","o","p","-","2","!">>}

\* a project as the UI builds it, used by the uploaded documents below
BaseProject == new_project("2023-12-31T23:59:59Z")

\* Uploaded files, as bytes.  Two are no JSON document, two are documents
\* that are no project, and two are documents Download project JSON wrote
\* and an editor changed: one lost its "brand" and got {"build": 42,
\* "notes": null} for its "meta", the other is a Vanilla/Express project
\* with a component of type "slider" and an "entities" key.
UploadDocs ==
    { <<"{", InvalidByte, "}">>,
      <<"{", "\"", "name", "\"", ":", " ">>,
      <<"[", "]">>,
      <<"{", "\"", "name", "\"", ":", "\"", "X", "\"", "}">>,
      utf8_encode(json_dumps(
          [k \in DOMAIN BaseProject \ {"brand"} |->
              IF k = "meta" THEN [build |-> [nondict |-> "int", digits |-> <<"4", "2">>],
                                  notes |-> [nondict |-> "NoneType"]]
              ELSE BaseProject[k]])),
      utf8_encode(json_dumps(
          [entities |-> <<"products", "suppliers">>]
          @@ [BaseProject EXCEPT
                !.frontend.framework = "Vanilla",
                !.backend.type = "Express",
                !.components = <<[type |-> "slider", id |-> <<"s1">>, label |-> "Volume"],
                                 [type |-> "select", id |-> <<"sel">>]>>])) }

(***************************************************************************)
(* The session: st.session_state, the page the sidebar shows, and what the *)
(* last script run put on screen.                                          *)
(***************************************************************************)
\* out.action: the handler that ran; out.msg: the st.success/st.error text;
\* out.uncaught: the exception that ended the run, "" when none;
\* out.download: a Download ZIP button is on screen; out.files: its archive
Screen(action, msg, uncaught) ==
    [action |-> action, msg |-> msg, uncaught |-> uncaught, download |-> FALSE, files |-> <<>>]

\* the page the radio shows by default: index 2 when logged in, else 0
DefaultPage(li) == IF li THEN "Builder" ELSE "Login"

\* ensure_session() on a fresh session, then the first run of the script
Init ==
    /\ logged_in = FALSE
    /\ licensed = FALSE
    /\ license_key = <<>>
    /\ \E ts \in Timestamps : project = new_project(ts)
    /\ selected_index = "None"
    /\ page = "Login"
    /\ out = Screen("start", "", "")

\* the sidebar's radio: the script runs the chosen page
Navigate ==
    \E pg \in Pages :
        LET r == RunPage(pg, project)
        IN  /\ page' = pg
            /\ project' = r.project
            /\ out' = Screen("navigate", "", r.err)
            /\ UNCHANGED <<logged_in, licensed, license_key, selected_index>>

\* ui_login's Login button; on success st.rerun() runs the script again, and the
\* radio, whose default index has changed, shows its old page or its new default
Login ==
    /\ page = "Login"
    /\ \E u \in Credentials, pw \in Credentials :
        IF u = DEFAULT_ADMIN_USER /\ pw = DEFAULT_ADMIN_PASS
        THEN \E pg \in {page, DefaultPage(TRUE)} :
                LET r == RunPage(pg, project)
                IN  /\ logged_in' = TRUE
                    /\ page' = pg
                    /\ project' = r.project
                    /\ out' = Screen("login", "", r.err)
                    /\ UNCHANGED <<licensed, license_key, selected_index>>
        ELSE /\ out' = Screen("login", "Invalid credentials", "")
             /\ UNCHANGED <<logged_in, licensed, license_key, project, selected_index, page>>

\* the sidebar's Logout button, then st.rerun()
Logout ==
    \E pg \in {page, DefaultPage(FALSE)} :
        LET r == RunPage(pg, project)
        IN  /\ logged_in' = FALSE
            /\ page' = pg
            /\ project' = r.project
            /\ out' = Screen("logout", "", r.err)
            /\ UNCHANGED <<licensed, license_key, selected_index>>

\* the sidebar's Reset project button, then st.rerun()
ResetProject ==
    \E ts \in Timestamps :
        LET r == RunPage(page, new_project(ts))
        IN  /\ project' = r.project
            /\ selected_index' = "None"
            /\ out' = Screen("reset", "", r.err)
            /\ UNCHANGED <<logged_in, licensed, license_key, page>>

\* ui_license's Validate button
Validate ==
    /\ page = "License"
    /\ \E key \in Keys :
        /\ license_key' = Strip(key)
        /\ licensed' = verify_license(Strip(key))
        /\ out' = Screen("validate",
                         IF verify_license(Strip(key)) THEN "License valid. Thank you!"
                         ELSE "Invalid license key", "")
        /\ UNCHANGED <<logged_in, project, selected_index, page>>

\* a widget of the Settings page is changed; the widgets that come before an
\* exception of the page are on screen, so the page need not have run to its end
EditSettings ==
    /\ page = "Settings"
    /\ \E name \in Names, framework \in {"React", "Vanilla"},
          btype \in {"FastAPI", "Express", "None"} :
        LET r == ui_settings(project, name, framework, btype)
        IN  /\ project' = r.project
            /\ out' = Screen("settings", IF r.err = "" THEN "Settings updated." ELSE "", r.err)
            /\ UNCHANGED <<logged_in, licensed, license_key, selected_index, page>>

\* json.loads(text): the value of the document, which is all of the text but
\* whitespace.  A value that is no dict is kept as [nondict |-> <its type>].
\* JSONDecoder.decode once raw_decode has read r: text after the value is an error
decode(text, r) ==
    IF r.err # "" \/ SkipWs(text, r.next) <= Len(text)
    THEN [err |-> "JSONDecodeError", data |-> [nondict |-> "none"]]
    ELSE [err |-> "",
          data |-> IF r.kind \in {"list", "str", "bool"} THEN [nondict |-> r.kind]
                   ELSE r.val]

json_loads(text) == decode(text, ParseValue(text, 1, ""))

\* json.loads(uploaded.read().decode("utf-8"))
read_upload(bytes) ==
    IF utf8_decode(bytes).err # ""
    THEN [err |-> utf8_decode(bytes).err, data |-> [nondict |-> "none"]]
    ELSE json_loads(utf8_decode(bytes).val)

\* what the try block of ui_builder reads from each uploaded file
Loaded == [doc \in UploadDocs |-> read_upload(doc)]

\* LoadProject with the assignment to session_state.project made before the
\* parse is known to have succeeded
LoadProject_assign_first ==
    /\ page = "Builder"
    /\ out.uncaught = ""
    /\ \E doc \in UploadDocs :
        LET before == ui_builder_render(project)
            loaded == Loaded[doc]
            after == ui_builder_render(loaded.data)
        IN  IF before.err # ""
            THEN /\ project' = before.project
                 /\ out' = Screen("load", "", before.err)
            ELSE IF loaded.err # ""
            THEN /\ project' = loaded.data
                 /\ out' = Screen("load", "Failed to load", "")
            ELSE /\ project' = after.project
                 /\ out' = Screen("load", "", after.err)
    /\ UNCHANGED <<logged_in, licensed, license_key, selected_index, page>>

\* ui_builder with a file in the uploader that reads as loaded: the page runs
\* up to the uploader, then the try block; on success st.rerun() runs the page
\* on the loaded value (st.rerun() leaves the try block: the exception it
\* raises is no Exception)
LoadFrom(action, loaded) ==
    LET before == ui_builder_render(project)
        after == ui_builder_render(loaded.data)
    IN  IF before.err # ""
        THEN /\ project' = before.project
             /\ out' = Screen(action, "", before.err)
        ELSE IF loaded.err # ""
        THEN /\ project' = before.project
             /\ out' = Screen(action, "Failed to load", "")
        ELSE /\ project' = after.project
             /\ out' = Screen(action, "", after.err)

\* one of the files of UploadDocs is put into the uploader
LoadProject ==
    /\ page = "Builder"
    /\ out.uncaught = ""
    /\ \E doc \in UploadDocs : LoadFrom("load", Loaded[doc])
    /\ UNCHANGED <<logged_in, licensed, license_key, selected_index, page>>

\* BuildZip without the try/except around build_zip
BuildZip_no_try ==
    /\ page = "Export"
    /\ out.uncaught = ""
    /\ LET shown == ui_export_render(project)
           blob == build_zip(project, licensed)
       IN  out' = IF shown.err # "" THEN Screen("export", "", shown.err)
                  ELSE IF blob.err # "" THEN Screen("export", "", blob.err)
                  ELSE [Screen("export", "Build complete.", "")
                            EXCEPT !.download = TRUE, !.files = blob.val]
    /\ UNCHANGED <<logged_in, licensed, license_key, project, selected_index, page>>

\* BuildZip with a generator that reverses the component list it is handed
BuildZip_reorders ==
    /\ page = "Export"
    /\ out.uncaught = ""
    /\ LET shown == ui_export_render(project)
           blob == build_zip(project, licensed)
       IN  /\ out' = IF shown.err # "" THEN Screen("export", "", shown.err)
                      ELSE IF blob.err # "" THEN Screen("export", "Build failed", "")
                      ELSE [Screen("export", "Build complete.", "")
                                EXCEPT !.download = TRUE, !.files = blob.val]
           /\ project' = IF shown.err # "" \/ blob.err # "" THEN project
                         ELSE [project EXCEPT !.components =
                                  [i \in 1..Len(@) |-> @[Len(@) + 1 - i]]]
    /\ UNCHANGED <<logged_in, licensed, license_key, selected_index, page>>

\* ui_export's Build ZIP button
BuildZip ==
    /\ page = "Export"
    /\ out.uncaught = ""
    /\ LET shown == ui_export_render(project)
           blob == build_zip(project, licensed)
       IN  out' = IF shown.err # "" THEN Screen("export", "", shown.err)
                  ELSE IF blob.err # "" THEN Screen("export", "Build failed", "")
                  ELSE [Screen("export", "Build complete.", "")
                            EXCEPT !.download = TRUE, !.files = blob.val]
    /\ UNCHANGED <<logged_in, licensed, license_key, project, selected_index, page>>

Next ==
    \/ Navigate
    \/ Login
    \/ Logout
    \/ ResetProject
    \/ Validate
    \/ EditSettings
    \/ LoadProject
    \/ BuildZip

Spec == Init /\ [][Next]_vars


(***************************************************************************)
(* The generators as pure functions: a project drawn from bounded sets,    *)
(* and one action per generator that applies it to that project.           *)
(***************************************************************************)
\* the characters of an options/columns field
FieldAlphabet == {"a", ",", " "}

\* every string over FieldAlphabet of length at most n
RECURSIVE StringsUpTo(_)
StringsUpTo(n) ==
    IF n = 0 THEN {<<>>}
    ELSE LET shorter == StringsUpTo(n - 1)
         IN  shorter \cup {Append(s, c) : s \in shorter, c \in FieldAlphabet}

FieldStrings == StringsUpTo(MaxStrLen)

\* components of every type of the data model, two of them of the same type,
\* and one with a type tag that is not in COMP_TYPES
ListComponents ==
    { [type |-> "text", id |-> <<"t1">>, label |-> "Hello"],
      [type |-> "text", id |-> <<"t2">>, label |-> "World"],
      [type |-> "input", id |-> <<"i1">>, label |-> "Email", placeholder |-> "you@x"],
      [type |-> "button", id |-> <<"b1">>, label |-> "Go"],
      [type |-> "checkbox", id |-> <<"c1">>, label |-> "Agree"],
      [type |-> "select", id |-> <<"s1">>, label |-> "Pick", options |-> <<"a", ",", "a", "a">>],
      [type |-> "table", id |-> <<"tb1">>, columns |-> <<"a", ",", " ", "a">>],
      [type |-> "slider", id |-> <<"x1">>, label |-> "Volume"] }

\* a select and a table for every field string
FieldComponents ==
    {[type |-> "select", id |-> <<"s1">>, label |-> "Pick", options |-> s] : s \in FieldStrings}
    \cup {[type |-> "table", id |-> <<"tb1">>, columns |-> s] : s \in FieldStrings}

\* every sequence over S of length at most n
RECURSIVE SeqsUpTo(_, _)
SeqsUpTo(S, n) ==
    IF n = 0 THEN {<<>>}
    ELSE LET shorter == SeqsUpTo(S, n - 1)
         IN  shorter \cup {Append(s, c) : s \in shorter, c \in S}

GenProjects ==
    {[BaseProject EXCEPT !.frontend.framework = fw, !.backend.type = bt, !.components = cs] :
        fw \in {"React", "Vanilla"}, bt \in {"FastAPI", "Express", "None"},
        cs \in SeqsUpTo(ListComponents, MaxComps)}
    \cup {[BaseProject EXCEPT !.frontend.framework = fw, !.components = <<c>>] :
            fw \in {"React", "Vanilla"}, c \in FieldComponents}
    \cup {[entities |-> <<"products", "suppliers">>]
            @@ [BaseProject EXCEPT !.backend.type = bt, !.frontend.darkMode = TRUE] :
                bt \in {"FastAPI", "Express", "None", "Flask"}}

ValidKey == <<"N","A","V","I","N","N","-","1","-","8">>

GenInit ==
    /\ logged_in = TRUE
    /\ licensed \in BOOLEAN
    /\ license_key = (IF licensed THEN ValidKey ELSE <<>>)
    /\ project \in GenProjects
    /\ selected_index = "None"
    /\ page = "Export"
    /\ out = Screen("start", "", "")

\* the result of a generator call, as the caller holds it
Returned(fn, r) ==
    [action |-> fn, msg |-> "", uncaught |-> r.err, download |-> FALSE, files |-> r.val]

CallFrontend ==
    /\ out' = Returned("generate_frontend_files", generate_frontend_files(project))
    /\ UNCHANGED <<logged_in, licensed, license_key, project, selected_index, page>>

CallBackend ==
    /\ out' = Returned("generate_backend_files", generate_backend_files(project))
    /\ UNCHANGED <<logged_in, licensed, license_key, project, selected_index, page>>

CallReadme ==
    /\ LET r == generate_readme(project, licensed)
       IN  out' = Returned("generate_readme",
                           [err |-> r.err,
                            val |-> IF r.err = "" THEN <<[path |-> <<"README.md">>,
                                                          content |-> r.val]>>
                                    ELSE <<>>])
    /\ UNCHANGED <<logged_in, licensed, license_key, project, selected_index, page>>

CallBuildZip ==
    /\ out' = Returned("build_zip", build_zip(project, licensed))
    /\ UNCHANGED <<logged_in, licensed, license_key, project, selected_index, page>>

GenNext ==
    \/ CallFrontend
    \/ CallBackend
    \/ CallReadme
    \/ CallBuildZip

GenSpec == GenInit /\ [][GenNext]_vars


(***************************************************************************)
(* The Builder page: the component list and the project document.  Every   *)
(* action is one press or edit on the page and the script runs it causes.  *)
(* A text_input returns the value it is given unless the user has just     *)
(* typed another: the value it is given is part of the widget's identity.  *)
(***************************************************************************)
\* longest component list the Add button is pressed on
MaxList == 3

\* int(time.time()*1000) at a press of Add; the model's reading has the digits
\* a 32-bit integer can hold
Clock == {1700000000}

\* the types picked in the Component type selectbox: the type of a component
\* the project has, a type with two fields and a type without a label
AddTypes == {"text", "select", "table"}

\* what the user types into a field of a component
Typed ==
    [label |-> {"Hi"},
     id |-> {<<"x", "\"", "\\", "é">>}]

\* the widgets of component i are on screen after a run of the page on p: the
\* components before it were edited without an exception, and its header shows
ShownAt(p, i) ==
    /\ SubscriptError(p, "components") = ""
    /\ i \in 1..Len(p.components)
    /\ EditAll(SubSeq(p.components, 1, i - 1), 1).err = ""
    /\ FirstError(p.components[i], <<"type", "id">>) = ""

\* the run that st.rerun() starts after the component list was set to comps
Rerun(action, comps) ==
    LET r == ui_builder_render([project EXCEPT !.components = comps])
    IN  /\ project' = r.project
        /\ out' = Screen(action, "", r.err)
        /\ UNCHANGED <<logged_in, licensed, license_key, selected_index, page>>

\* a[i], a[j] = a[j], a[i]
Swap(a, i, j) == [a EXCEPT ![i] = a[j], ![j] = a[i]]

\* Pop that takes the component after the pressed one as well
Pop_two(a, i) == SubSeq(a, 1, i - 1) \o SubSeq(a, i + 2, Len(a))

\* list.pop(i), the list that is left
Pop(a, i) == SubSeq(a, 1, i - 1) \o SubSeq(a, i + 1, Len(a))

\* ui_builder's Add button
AddComponent(c_type, ms) ==
    /\ page = "Builder"
    /\ IF SubscriptError(project, "components") # ""
       THEN /\ out' = Screen("add", "", SubscriptError(project, "components"))
            /\ UNCHANGED <<logged_in, licensed, license_key, project, selected_index, page>>
       ELSE /\ Len(project.components) < MaxList
            /\ Rerun("add", Append(project.components, new_component(c_type, ms)))

\* edit_component's Move up button of component i (idx = i - 1)
MoveUp(i) ==
    /\ page = "Builder"
    /\ ShownAt(project, i)
    /\ IF i - 1 > 0
       THEN Rerun("up", Swap(project.components, i - 1, i))
       ELSE Rerun("up", project.components)

\* edit_component's Move down button of component i
MoveDown(i) ==
    /\ page = "Builder"
    /\ ShownAt(project, i)
    /\ IF i - 1 < Len(project.components) - 1
       THEN Rerun("down", Swap(project.components, i + 1, i))
       ELSE Rerun("down", project.components)

\* edit_component's Delete button of component i
DeleteComponent(i) ==
    /\ page = "Builder"
    /\ ShownAt(project, i)
    /\ Rerun("delete", Pop(project.components, i))

\* a text_input of component i is given a new value
EditField(i, field, value) ==
    /\ page = "Builder"
    /\ ShownAt(project, i)
    /\ project.components[i].type \in DOMAIN COMP_TYPES
    /\ field \in Range(COMP_TYPES[project.components[i].type].fields) \cup {"id"}
    /\ Rerun("edit", [project.components EXCEPT ![i] = (field :> value) @@ @])

\* the Download project JSON button: the browser saves the document the last
\* run of the page made of the project, under the name it gave
DownloadProject ==
    /\ page = "Builder"
    /\ out.uncaught = ""
    /\ LET shown == ui_builder_render(project)
       IN  /\ shown.err = ""
           /\ project' = shown.project
           /\ out' = [Screen("download", "", "")
                        EXCEPT !.files = <<[path |-> <<slugify(shown.project.name), ".json">>,
                                            content |-> utf8_encode(json_dumps(shown.project))]>>]
    /\ UNCHANGED <<logged_in, licensed, license_key, selected_index, page>>

\* the document just saved is put into the uploader: LoadProject on that file
LoadSaved ==
    /\ page = "Builder"
    /\ out.action = "download"
    /\ LoadFrom("load saved", read_upload(out.files[1].content))
    /\ UNCHANGED <<logged_in, licensed, license_key, selected_index, page>>

\* a session that has logged in, on the page the radio then shows
BuilderInit ==
    /\ logged_in = TRUE
    /\ licensed = FALSE
    /\ license_key = <<>>
    /\ \E ts \in Timestamps : project = new_project(ts)
    /\ selected_index = "None"
    /\ page = "Builder"
    /\ out = Screen("login", "", "")

BuilderNext ==
    \/ \E c_type \in AddTypes, ms \in Clock : AddComponent(c_type, ms)
    \/ \E i \in 1..MaxList : MoveUp(i)
    \/ \E i \in 1..MaxList : MoveDown(i)
    \/ \E i \in 1..MaxList : DeleteComponent(i)
    \/ LoadProject

BuilderSpec == BuilderInit /\ [][BuilderNext]_vars


(***************************************************************************)
(* The project document: projects the Builder and Settings pages build,    *)
(* drawn from bounded sets, and the actions that save a project and load   *)
(* a document.                                                             *)
(***************************************************************************)
\* longest component list drawn for the project document
MaxDocComps == 1

\* a component of every type as Add makes it, a select whose options were
\* cleared and a table with a quote and brackets in its columns
DocComponents ==
    {new_component(t, ms) : t \in Range(COMP_TYPE_KEYS), ms \in Clock}
    \cup { [type |-> "select", id |-> <<"s", "/", "{", "}">>, label |-> "",
            options |-> <<>>],
           [type |-> "table", id |-> <<"t", ":", "[", ",", "]">>,
            columns |-> <<"a", ",", " ", "\"">>] }

\* app names typed into the Settings page
DocNames == {DefaultName, <<"\\", "\"", " ", "é", "\\", "n">>, <<" ">>}

\* the project of a new session; projects whose component list the Builder
\* page made; projects the Settings page changed, their components deleted
DocProjects ==
    {BaseProject}
    \cup {[BaseProject EXCEPT !.components = cs] : cs \in SeqsUpTo(DocComponents, MaxDocComps)}
    \cup {[BaseProject EXCEPT !.name = n, !.frontend.framework = fw,
                              !.frontend.darkMode = (fw = "Vanilla"),
                              !.backend.type = bt, !.components = <<>>] :
            n \in DocNames, fw \in {"React", "Vanilla"}, bt \in {"FastAPI", "Express", "None"}}

DocInit ==
    /\ logged_in = TRUE
    /\ licensed = FALSE
    /\ license_key = <<>>
    /\ project \in DocProjects
    /\ selected_index = "None"
    /\ page = "Builder"
    /\ out = Screen("navigate", "", "")

DocNext ==
    \/ DownloadProject
    \/ LoadSaved
    \/ LoadProject
    \/ \E i \in 1..MaxList, field \in DOMAIN Typed : \E value \in Typed[field] :
            EditField(i, field, value)

DocSpec == DocInit /\ [][DocNext]_vars


(***************************************************************************)
(* Reading generated files back.                                           *)
(***************************************************************************)
HasPath(files, path) == \E i \in 1..Len(files) : files[i].path = path

FileAt(files, path) == files[CHOOSE i \in 1..Len(files) : files[i].path = path].content

\* the file that carries the components' markup
MarkupPath(p) ==
    IF p.frontend.framework = "React" THEN <<"frontend", "src", "App.jsx">>
    ELSE <<"frontend", "index.html">>

CardOpens == {"<div className=\"card\">", "<div class=\"card\">"}

\* the positions where a rendered block opens, in order
BlockStarts(m) == SelectSeq([i \in 1..Len(m) |-> i], LAMBDA i : m[i] \in CardOpens)

\* the k-th rendered block: from its opening tag up to the next block
Block(m, k) ==
    LET st == BlockStarts(m)
    IN  SubSeq(m, st[k], IF k < Len(st) THEN st[k + 1] - 1 ELSE Len(m))

Count(b, toks) == Cardinality({k \in 1..Len(b) : b[k] \in toks})

\* the component type a rendered block shows
BlockKind(b) ==
    CASE Count(b, {"<div className=\"title\">", "<div class=\"title\">"}) > 0 -> "text"
      [] Count(b, {"\n  <input id=\""}) > 0 -> "input"
      [] Count(b, {"<button className=\"btn\">", "<button class=\"btn\">"}) > 0 -> "button"
      [] Count(b, {"\n  <label className=\"label\"><input type=\"checkbox\" id=\"",
                   "\n  <label class=\"label\"><input type=\"checkbox\" id=\""}) > 0 -> "checkbox"
      [] Count(b, {"\n  <select id=\""}) > 0 -> "select"
      [] Count(b, {"\n  <table>"}) > 0 -> "table"
      [] Count(b, {"Unknown component"}) > 0 -> "unknown"
      [] OTHER -> "none"

ExpectedKind(c) == IF c.type \in Range(COMP_TYPE_KEYS) THEN c.type ELSE "unknown"

\* block b shows component c: its type, and its label and id where the type has them
Shows(b, c) ==
    /\ BlockKind(b) = ExpectedKind(c)
    /\ (c.type \in {"text", "input", "button", "checkbox", "select"}
            => Count(b, {c.label}) > 0)
    /\ (c.type \in {"input", "checkbox", "select"}
            => \A j \in 1..Len(c.id) : Count(b, {c.id[j]}) > 0)

(***************************************************************************)
(* C1: for every component list and for both frameworks, the markup that   *)
(* generate_frontend_files emits holds exactly one rendered block per      *)
(* component, and the k-th block shows the k-th component of               *)
(* project["components"].                                                  *)
(***************************************************************************)
C1_OneBlockPerComponentInOrder ==
    out.action = "generate_frontend_files" =>
        /\ out.uncaught = ""
        /\ HasPath(out.files, MarkupPath(project))
        /\ LET m == FileAt(out.files, MarkupPath(project))
               comps == project.components
           IN  /\ Len(BlockStarts(m)) = Len(comps)
               /\ \A k \in 1..Len(comps) : Shows(Block(m, k), comps[k])

\* two components of one type and different labels, rendered by React
C1_Witness ==
    /\ out.action = "generate_frontend_files"
    /\ project.frontend.framework = "React"
    /\ Len(project.components) = 2
    /\ project.components[1].type = "text"
    /\ project.components[2].type = "text"
    /\ project.components[1].label # project.components[2].label
    /\ Len(BlockStarts(FileAt(out.files, MarkupPath(project)))) = 2

\* the entries of a comma-separated string: the comma-delimited segments that
\* hold a character other than whitespace, counted by their first such character
EntryCount(s) ==
    Cardinality({i \in 1..Len(s) :
        /\ s[i] # "," /\ ~IsSpace(s[i])
        /\ \A j \in 1..(i - 1) :
              (\A k \in j..(i - 1) : s[k] # ",") => IsSpace(s[j])})

(***************************************************************************)
(* C6: a select (table) whose options (columns) string holds no entry --   *)
(* it is empty, or only whitespace and commas -- is rendered with exactly  *)
(* one placeholder <option> (one placeholder <th> and one <td>), and one   *)
(* whose string holds n >= 1 entries with exactly n <option> (n <th> and   *)
(* n <td>), by both generators.                                            *)
(***************************************************************************)
C6_PlaceholderOrOnePerEntry ==
    out.action = "generate_frontend_files" /\ out.uncaught = "" =>
        LET m == FileAt(out.files, MarkupPath(project))
            comps == project.components
        IN  \A k \in 1..Len(comps) :
              LET c == comps[k]
                  b == Block(m, k)
              IN  /\ (c.type = "select" /\ "options" \in DOMAIN c) =>
                        LET n == EntryCount(c.options)
                        IN  /\ Count(b, {"<option value=\"", "<option>"})
                                  = (IF n = 0 THEN 1 ELSE n)
                            /\ (n = 0) = (Count(b, {"<option>"}) = 1)
                  /\ (c.type = "table" /\ "columns" \in DOMAIN c) =>
                        LET n == EntryCount(c.columns)
                        IN  /\ Count(b, {"<th>"}) = (IF n = 0 THEN 1 ELSE n)
                            /\ Count(b, {"<td></td>"}) = Count(b, {"<th>"})
                            /\ (n = 0) = (Count(b, {"Column"}) = 1)

\* a select whose options are only a comma and whitespace, rendered
C6_Witness ==
    /\ out.action = "generate_frontend_files"
    /\ Len(project.components) = 1
    /\ project.components[1].type = "select"
    /\ project.components[1].options = <<" ", ",", " ">>
    /\ Count(FileAt(out.files, MarkupPath(project)), {"<option>"}) = 1


ReadmePath == <<"README.md">>

(***************************************************************************)
(* C2: the README.md of an exported archive holds the trial-build notice   *)
(* if and only if session_state.licensed is false when Build ZIP is        *)
(* pressed, whatever Validate, Logout, Reset project and settings actions  *)
(* came before.                                                            *)
(***************************************************************************)
C2_WatermarkIffUnlicensed ==
    out.action = "export" /\ out.download =>
        /\ HasPath(out.files, ReadmePath)
        /\ (Count(FileAt(out.files, ReadmePath), {TrialNotice}) > 0) = (~licensed)

\* an export of a licensed session with edited settings: no notice in the README
C2_Witness ==
    /\ out.action = "export"
    /\ out.download
    /\ licensed
    /\ logged_in
    /\ project.name # DefaultName
    /\ Count(FileAt(out.files, ReadmePath), {TrialNotice}) = 0

WatermarkTail == <<"\n", "---", "\n", TrialNotice>>

(***************************************************************************)
(* C3: the archives build_zip makes of one project with licensed true and  *)
(* with licensed false hold the same paths in the same order and the same  *)
(* content at every path but README.md, and the unlicensed README.md is    *)
(* the licensed one followed by the watermark lines.                       *)
(***************************************************************************)
C3_LicenseOnlyChangesReadmeTail ==
    out.action = "build_zip" =>
        LET other == build_zip(project, ~licensed)
            paid == IF licensed THEN out.files ELSE other.val
            trial == IF licensed THEN other.val ELSE out.files
        IN  /\ other.err = out.uncaught
            /\ Len(paid) = Len(trial)
            /\ \A i \in 1..Len(paid) :
                  /\ paid[i].path = trial[i].path
                  /\ paid[i].path # ReadmePath => paid[i].content = trial[i].content
                  /\ paid[i].path = ReadmePath =>
                        trial[i].content = paid[i].content \o WatermarkTail

\* a trial archive with a backend subtree
C3_Witness ==
    /\ out.action = "build_zip"
    /\ out.uncaught = ""
    /\ ~licensed
    /\ project.backend.type = "Express"
    /\ Len(out.files) > 2

Paths(files) == {files[i].path : i \in 1..Len(files)}

BackendDirs == {"backend_fastapi", "backend_express"}

(***************************************************************************)
(* C4: the archive holds exactly the paths of generate_frontend_files, of  *)
(* generate_backend_files and README.md, each once; every path is under    *)
(* frontend/, under the backend_<kind>/ of the chosen backend, or is       *)
(* README.md at the root; a frontend path is always there, and no backend  *)
(* path when the backend type is "None".                                   *)
(***************************************************************************)
C4_ArchivePaths ==
    out.action = "build_zip" /\ out.uncaught = "" =>
        LET fe == generate_frontend_files(project).val
            be == generate_backend_files(project).val
        IN  /\ Paths(out.files) = Paths(fe) \cup Paths(be) \cup {ReadmePath}
            /\ Len(out.files) = Cardinality(Paths(out.files))
            /\ \A q \in Paths(out.files) :
                  \/ Len(q) >= 2 /\ q[1] = "frontend"
                  \/ Len(q) = 2 /\ q[1] = "backend_fastapi" /\ project.backend.type = "FastAPI"
                  \/ Len(q) = 2 /\ q[1] = "backend_express" /\ project.backend.type = "Express"
                  \/ q = ReadmePath
            /\ \E q \in Paths(out.files) : q[1] = "frontend"
            /\ (project.backend.type = "None"
                    => \A q \in Paths(out.files) : q[1] \notin BackendDirs)
            /\ (project.backend.type \in {"FastAPI", "Express"}
                    => \E q \in Paths(out.files) : q[1] \in BackendDirs)

\* an archive with all three parts
C4_Witness ==
    /\ out.action = "build_zip"
    /\ out.uncaught = ""
    /\ project.frontend.framework = "React"
    /\ project.backend.type = "FastAPI"
    /\ Len(out.files) = 10

ReadRoutes == {"@app.get(\"/\")", "app.get('/', "}

WriteRoutes == {"@app.post(\"/echo\")", "app.post('/echo', "}

ServerPath(p) ==
    IF p.backend.type = "FastAPI" THEN <<"backend_fastapi", "main.py">>
    ELSE <<"backend_express", "server.js">>

(***************************************************************************)
(* C5 as amended: generate_backend_files returns no file when the backend  *)
(* type is neither FastAPI nor Express ("None" included); otherwise it     *)
(* returns the four files of the stub, whose server file declares exactly  *)
(* one read route (GET /) and one write route (POST /echo), whatever the   *)
(* project declares.                                                       *)
(***************************************************************************)
C5_OneRoutePairPerStub ==
    out.action = "generate_backend_files" =>
        /\ out.uncaught = ""
        /\ (project.backend.type \notin {"FastAPI", "Express"} => out.files = <<>>)
        /\ (project.backend.type \in {"FastAPI", "Express"} =>
                /\ Len(out.files) = 4
                /\ HasPath(out.files, ServerPath(project))
                /\ Count(FileAt(out.files, ServerPath(project)), ReadRoutes) = 1
                /\ Count(FileAt(out.files, ServerPath(project)), WriteRoutes) = 1)

\* the stub of a project that declares two entities
C5_Witness ==
    /\ out.action = "generate_backend_files"
    /\ project.backend.type = "Express"
    /\ "entities" \in DOMAIN project
    /\ Len(project.entities) = 2
    /\ Len(out.files) = 4

\* the entities a project document declares
DeclaredEntities(p) == IF "entities" \in DOMAIN p THEN p.entities ELSE <<>>

(***************************************************************************)
(* C5 as claimed: no file when the backend type is "None", and otherwise   *)
(* one read route and one write route per declared entity, for a project   *)
(* that declares entities.                                                 *)
(***************************************************************************)
C5_OneRoutePairPerEntity ==
    out.action = "generate_backend_files" =>
        /\ (project.backend.type = "None" => out.files = <<>>)
        /\ (project.backend.type \in {"FastAPI", "Express"}
            /\ Len(DeclaredEntities(project)) > 0 =>
                /\ Count(FileAt(out.files, ServerPath(project)), ReadRoutes)
                      = Len(DeclaredEntities(project))
                /\ Count(FileAt(out.files, ServerPath(project)), WriteRoutes)
                      = Len(DeclaredEntities(project)))


(***************************************************************************)
(* C7: a load whose upload does not decode or does not parse reports the   *)
(* failure and leaves session_state.project, licensed, logged_in and       *)
(* selected_index exactly as they were; the project changes in a load      *)
(* only when the load succeeds.                                            *)
(***************************************************************************)
C7_FailedLoadLeavesSession ==
    [][ out'.action = "load" /\ out'.msg = "Failed to load" =>
            /\ project' = project
            /\ licensed' = licensed
            /\ logged_in' = logged_in
            /\ selected_index' = selected_index
            /\ license_key' = license_key ]_vars

\* a failed load in a licensed session whose project has been edited
C7_Witness ==
    /\ out.action = "load"
    /\ out.msg = "Failed to load"
    /\ licensed
    /\ logged_in
    /\ project.name # DefaultName
    /\ project.backend.type = "None"

WellShaped(p) ==
    /\ IsDict(p)
    /\ {"name", "brand", "frontend", "backend", "components"} \subseteq DOMAIN p
    /\ Has(p.frontend, "framework")
    /\ Has(p.backend, "type")

(***************************************************************************)
(* C8 as claimed: after any sequence of uploads session_state.project is   *)
(* a record with the fields name, brand, frontend{framework}, backend{type}*)
(* and components.                                                         *)
(***************************************************************************)
C8_ProjectAlwaysWellShaped == WellShaped(project)

ComponentsCarryTypeAndId(p) ==
    \A k \in 1..Len(p.components) : {"type", "id"} \subseteq DOMAIN p.components[k]

(***************************************************************************)
(* C9 as claimed: a component whose type tag is not in COMP_TYPES is shown *)
(* as an "unknown component" block by the frontend generators, and the     *)
(* builder's field editor and live preview run to the end on a project     *)
(* that holds one: the Builder page never ends in an exception on a        *)
(* well-shaped project whose components all carry a type and an id.        *)
(***************************************************************************)
C9_UnknownTagsFailClosed ==
    /\ (out.action = "export" /\ out.download =>
            LET m == FileAt(out.files, MarkupPath(project))
            IN  \A k \in 1..Len(project.components) :
                    ExpectedKind(project.components[k]) = "unknown"
                        => BlockKind(Block(m, k)) = "unknown")
    /\ (page = "Builder" /\ WellShaped(project) /\ ComponentsCarryTypeAndId(project)
            => out.uncaught = "")

(***************************************************************************)
(* C10: when build_zip raises in an export, the Export page shows the      *)
(* failure message, no exception leaves ui_export and no Download ZIP      *)
(* button is offered; a Download ZIP button is offered only with the       *)
(* complete archive build_zip returned; and an export leaves project,      *)
(* licensed and logged_in as they were.                                    *)
(***************************************************************************)
C10_FailedBuildOffersNothing ==
    [][ out'.action = "export" =>
            /\ (build_zip(project, licensed).err # "" =>
                    /\ out'.msg = "Build failed"
                    /\ out'.uncaught = ""
                    /\ ~out'.download
                    /\ out'.files = <<>>)
            /\ (out'.download =>
                    /\ build_zip(project, licensed).err = ""
                    /\ out'.files = build_zip(project, licensed).val
                    /\ out'.msg = "Build complete.")
            /\ project' = project
            /\ licensed' = licensed
            /\ logged_in' = logged_in ]_vars

\* an export whose build raised
C10_Witness ==
    /\ out.action = "export"
    /\ out.msg = "Build failed"
    /\ ~out.download
    /\ build_zip(project, licensed).err = "KeyError"

\* the project document on screen after Download project JSON
SavedDocument == out.files[1].content

(***************************************************************************)
(* C11: the document Download project JSON saves of the session's project, *)
(* loaded back by Load project JSON, is read without an error and leaves   *)
(* session_state.project equal to the project that was saved: the same     *)
(* keys with the same values, the components in the same order.            *)
(***************************************************************************)
C11_RoundTrip ==
    [][ out'.action = "load saved" /\ LoadSaved =>
            /\ json_loads(SavedDocument) = [err |-> "", data |-> project]
            /\ out'.msg = ""
            /\ out'.uncaught = ""
            /\ project' = project ]_vars

\* a project with a quote, a backslash and a character outside ASCII in a
\* component's id, saved and loaded back
C11_Witness ==
    /\ out.action = "load saved"
    /\ out.uncaught = ""
    /\ Has(project, "components")
    /\ \E i \in 1..Len(project.components) :
          {"\"", "\\", "é"} \subseteq Range(project.components[i].id)

\* the three generators, each called on its own
Regenerated(p, is_licensed) ==
    generate_frontend_files(p).val \o generate_backend_files(p).val
        \o << [path |-> <<"README.md">>, content |-> generate_readme(p, is_licensed).val] >>

FieldDefault(k) ==
    CASE k = "options" -> OptionAB
      [] k = "columns" -> NameValue
      [] OTHER -> ""

\* d is the component c after a run of the page: c itself when c carries every
\* field of its type, else c with the defaults of the fields it lacks, or c
\* itself when the run ended before it
SameComponent(c, d) ==
    /\ DOMAIN c \subseteq DOMAIN d
    /\ \A k \in DOMAIN c : d[k] = c[k]
    /\ \A k \in DOMAIN d \ DOMAIN c :
          /\ c.type \in DOMAIN COMP_TYPES
          /\ k \in Range(COMP_TYPES[c.type].fields)
          /\ d[k] = FieldDefault(k)
    /\ (c.type \in DOMAIN COMP_TYPES /\ Range(COMP_TYPES[c.type].fields) \subseteq DOMAIN c)
          => d = c

\* the component list after the step is the list `want`, component by component
ListIs(want) ==
    /\ Len(project'.components) = Len(want)
    /\ \A k \in 1..Len(want) : SameComponent(want[k], project'.components[k])

(***************************************************************************)
(* C13: on the Builder page, Add appends one component of the chosen type  *)
(* and keeps the others in place; Delete of component i removes that one   *)
(* and keeps the others in order; Move up of a component that is not the   *)
(* first, and Move down of one that is not the last, exchange it with its  *)
(* neighbour and keep the others in place; Move up of the first and Move   *)
(* down of the last change nothing.  A component that is kept is the       *)
(* component it was: Add and the two moves that change nothing leave every *)
(* field of it alone, and after a Delete or an exchange it holds the       *)
(* fields it held, with the default of a field of its type that it lacked. *)
(***************************************************************************)
C13_ListOperations ==
    [][ LET old == project.components
            n == Len(project.components)
        IN  /\ out'.action = "add" /\ out'.uncaught # "TypeError" /\ Has(project, "components") =>
                \A c_type \in AddTypes, ms \in Clock :
                    AddComponent(c_type, ms) =>
                        /\ Len(project'.components) = n + 1
                        /\ \A k \in 1..n : project'.components[k] = old[k]
                        /\ project'.components[n + 1].type = c_type
                        /\ SameComponent(new_component(c_type, ms), project'.components[n + 1])
            /\ out'.action = "delete" =>
                \A i \in 1..MaxList :
                    DeleteComponent(i) =>
                        /\ Len(project'.components) = n - 1
                        /\ \A k \in 1..(i - 1) : SameComponent(old[k], project'.components[k])
                        /\ \A k \in i..(n - 1) : SameComponent(old[k + 1], project'.components[k])
            /\ out'.action = "up" =>
                \A i \in 1..MaxList :
                    MoveUp(i) =>
                        /\ i = 1 => project'.components = old
                        /\ i > 1 => ListIs([k \in 1..n |-> IF k = i - 1 THEN old[i]
                                                           ELSE IF k = i THEN old[i - 1]
                                                           ELSE old[k]])
            /\ out'.action = "down" =>
                \A i \in 1..MaxList :
                    MoveDown(i) =>
                        /\ i = n => project'.components = old
                        /\ i < n => ListIs([k \in 1..n |-> IF k = i + 1 THEN old[i]
                                                           ELSE IF k = i THEN old[i + 1]
                                                           ELSE old[k]]) ]_vars

\* the first two of the project's own components exchanged, after a Delete
\* and an Add had put a table behind them
C13_Witness ==
    /\ out.action = "up"
    /\ out.uncaught = ""
    /\ Len(project.components) = 3
    /\ project.components[1].id = <<"name">>
    /\ project.components[2].id = <<"title1">>
    /\ project.components[3].type = "table"

=============================================================================
